---- MODULE Spec2Model ----
(***************************************************************************)
(* Model of the bookkeeping layer of flutter_soloud:                       *)
(*   - the sound registry of Player (src/src/player.cpp): the vector       *)
(*     `sounds` of owned ActiveSound records, looked up by hash            *)
(*     (std::find_if) and by handle (findByHandle);                        *)
(*   - the capture relay (src/src/capture.cpp): the device callback that   *)
(*     copies fixed-size frames into capturedBuffer and bigBuffer.         *)
(*   - the 3D listener setters of Player, which forward to the engine.     *)
(*                                                                         *)
(* `sounds` is a std::vector<std::unique_ptr<ActiveSound>>.  An element    *)
(* is either an owned record or an empty unique_ptr (sounds.emplace_back() *)
(* with no arguments).  Reading a field through an empty element is a null *)
(* pointer dereference; on the native targets of this plugin that read     *)
(* faults at page zero and the process is terminated, which the model      *)
(* records as crashed = TRUE (no operation is enabled afterwards).         *)
(*                                                                         *)
(* The audio engine (SoLoud) and the device layer (miniaudio) are external *)
(* collaborators: their results (load result, issued handle, device init   *)
(* result, delivered frame) are inputs drawn from small sets.              *)
(***************************************************************************)
EXTENDS Integers, Sequences, FiniteSets, TLC

VARIABLES
    mInited,        \* Player::mInited
    sounds,         \* Player::sounds
    crashed,        \* the process was terminated by a memory fault
    call,           \* observation of the last Player call: op, argument, results
    listener,       \* the engine's 3D listener: position, at, up, velocity
    capInited,      \* Capture::mInited
    device,         \* state of Capture::device in the device layer
    currentFrame,   \* global currentFrame
    capturedBuffer, \* global capturedBuffer[CAPTURE_BUFFER_SIZE]: its samples
    bigBuffer,      \* global bigBuffer: the caller's buffer it points to, 0 for none
    heap,           \* the caller's buffers: address, capacity and samples of each
    devInfos,       \* context results kept by Capture: playback and capture infos
    delivered,      \* history: frames delivered since the last successful init
    nCallbacks,     \* history: callbacks completed since the process started
    session,        \* history of the session opened by the last successful init
    capCall,        \* observation of the last Capture call or callback
    capPc           \* position of the caller's thread: "idle", or "dispose" inside
                    \* Capture::dispose, between its two statements

playerVars == <<mInited, sounds, call, listener>>

captureVars == <<capInited, device, currentFrame, capturedBuffer, bigBuffer, heap,
                 devInfos, delivered, nCallbacks, session, capCall, capPc>>

vars == <<mInited, sounds, call, listener, crashed, capInited, device, currentFrame,
          capturedBuffer, bigBuffer, heap, devInfos, delivered, nCallbacks, session,
          capCall, capPc>>

-----------------------------------------------------------------------------
(* Bounds of the model *)

\* the registry holds at most MaxSounds elements
MaxSounds == 3
\* the registry tracks at most MaxLive live handles in all
MaxLive == 2
\* the waveform setters change at most MaxSet generator parameters in all
MaxSet == 2
\* the engine issues handles 1..MaxHandle
MaxHandle == 2
\* file paths are 1..MaxPath (0 is the string "memory-mapped-sample")
MaxPath == 2
\* hashes are 0..HashMod-1
HashMod == 3

Handles == 1..MaxHandle
Paths == 1..MaxPath
HashVals == 0..(HashMod - 1)

-----------------------------------------------------------------------------
(* Hashing: (unsigned int)std::hash<std::string>{}(s).  The value is        *)
(* implementation defined; what the code relies on is that it is a fixed    *)
(* function of the string into the unsigned range.  Here strings are small  *)
(* integers and the range is 0..HashMod-1, so one path hashes to 0.         *)

MemoryPath == 0

StrHash(s) == (s + 1) % HashMod

-----------------------------------------------------------------------------
(* ActiveSound records *)

NoParams == [waveform |-> 0, superWave |-> 0, scale |-> 0, detune |-> 0, freq |-> 0]

\* an empty std::unique_ptr<ActiveSound>; its other fields are never read
NullSound ==
    [null |-> TRUE, soundHash |-> 0, soundType |-> "TYPE_WAV", sound |-> "null",
     params |-> NoParams, handle |-> <<>>, completeFileName |-> -1]

\* std::make_unique<ActiveSound>(): value-initialised, so soundHash is 0,
\* soundType is the first enumerator, sound is an empty pointer
NewActiveSound ==
    [null |-> FALSE, soundHash |-> 0, soundType |-> "TYPE_WAV", sound |-> "null",
     params |-> NoParams, handle |-> <<>>, completeFileName |-> -1]

\* the hashes carried by the non-empty elements of the registry
Hashes(snds) == {snds[i].soundHash : i \in {j \in 1..Len(snds) : ~snds[j].null}}

\* number of elements of the registry that carry hash h
CountHash(snds, h) == Cardinality({i \in 1..Len(snds) : ~snds[i].null /\ snds[i].soundHash = h})

\* the handles tracked by any sound
Tracked(snds) ==
    UNION {{snds[i].handle[k] : k \in 1..Len(snds[i].handle)} :
           i \in {j \in 1..Len(snds) : ~snds[j].null}}

HasNull(snds) == \E i \in 1..Len(snds) : snds[i].null

-----------------------------------------------------------------------------
(* Results of a call: the registry after it, the error code or "" for void   *)
(* functions, the returned handle/count, the value written to the hash out   *)
(* parameter (-1: not written), the engine calls made, and whether the call  *)
(* faulted.                                                                  *)

Result(snds, err, ret, hashOut, eng) ==
    [sounds |-> snds, err |-> err, ret |-> ret, hashOut |-> hashOut,
     eng |-> eng, fault |-> FALSE]

Fault(snds, hashOut, eng) ==
    [sounds |-> snds, err |-> "", ret |-> 0, hashOut |-> hashOut,
     eng |-> eng, fault |-> TRUE]

-----------------------------------------------------------------------------
(* std::find_if(sounds.begin(), sounds.end(), f->soundHash == h):           *)
(* index of the first element carrying h, 0 for sounds.end(), -1 when an     *)
(* empty element is dereferenced before a match.                            *)

RECURSIVE FindIfFrom(_, _, _)
FindIfFrom(snds, h, i) ==
    IF i > Len(snds) THEN 0
    ELSE IF snds[i].null THEN -1
    ELSE IF snds[i].soundHash = h THEN i
    ELSE FindIfFrom(snds, h, i + 1)

FindIf(snds, h) == FindIfFrom(snds, h, 1)

-----------------------------------------------------------------------------
(* vector::erase(pos) with a single iterator: removes the one element at    *)
(* pos.  Erasing end() is undefined; no caller below reaches it.            *)

Erase(v, pos) == SubSeq(v, 1, pos - 1) \o SubSeq(v, pos + 1, Len(v))

(* std::remove_if over the registry with the predicate soundHash == h,      *)
(* started at the first match `result`: every later element is tested once, *)
(* in order; an element that does not match is move-assigned to the slot    *)
(* `result` (the moved-from unique_ptr becomes empty).  Returns the vector   *)
(* after the pass, the returned iterator, and whether the predicate read    *)
(* through an empty element.                                                *)

RECURSIVE RemoveIfSounds(_, _, _, _)
RemoveIfSounds(v, h, result, i) ==
    IF i > Len(v) THEN [vec |-> v, pos |-> result, fault |-> FALSE]
    ELSE IF v[i].null THEN [vec |-> v, pos |-> result, fault |-> TRUE]
    ELSE IF v[i].soundHash # h
         THEN RemoveIfSounds([v EXCEPT ![result] = v[i], ![i] = NullSound],
                             h, result + 1, i + 1)
    ELSE RemoveIfSounds(v, h, result, i + 1)

(* std::remove_if over a handle list with the predicate f == handle; a      *)
(* moved-from integer keeps its value.                                      *)

RECURSIVE RemoveIfHandles(_, _, _, _)
RemoveIfHandles(v, hd, result, i) ==
    IF i > Len(v) THEN [vec |-> v, pos |-> result]
    ELSE IF v[i] # hd
         THEN RemoveIfHandles([v EXCEPT ![result] = v[i]], hd, result + 1, i + 1)
    ELSE RemoveIfHandles(v, hd, result, i + 1)

\* index of the first element of a handle list equal to hd, 0 if none
RECURSIVE IndexOf(_, _, _)
IndexOf(v, hd, i) ==
    IF i > Len(v) THEN 0
    ELSE IF v[i] = hd THEN i
    ELSE IndexOf(v, hd, i + 1)

(* Player::findByHandle: the first sound, in registry order, whose handle   *)
(* list holds `hd`.  sound: its index, 0 for nullptr, -1 when the scan      *)
(* dereferences an empty element; handleId: the 0-based position stored in  *)
(* *handleId, -1 if not found.                                              *)

RECURSIVE FindByHandleFrom(_, _, _)
FindByHandleFrom(snds, hd, i) ==
    IF i > Len(snds) THEN [sound |-> 0, handleId |-> -1]
    ELSE IF snds[i].null THEN [sound |-> -1, handleId |-> -1]
    ELSE IF IndexOf(snds[i].handle, hd, 1) # 0
         THEN [sound |-> i, handleId |-> IndexOf(snds[i].handle, hd, 1) - 1]
    ELSE FindByHandleFrom(snds, hd, i + 1)

findByHandle(snds, hd) == FindByHandleFrom(snds, hd, 1)

-----------------------------------------------------------------------------
(* Player::getSoundsCount *)

getSoundsCount(snds) == Len(snds)

(* Player::loadFile(completeFileName, hash).  res is the result of          *)
(* SoLoud::Wav::load.                                                       *)

LoadKeyed(snds, inited, name, res, engCall) ==
    IF ~inited THEN Result(snds, "backendNotInited", 0, -1, <<>>)
    ELSE LET newHash == StrHash(name)
             s == FindIf(snds, newHash)
             pushed == Append(snds, [NewActiveSound EXCEPT
                                        !.completeFileName = name,
                                        !.soundHash = newHash,
                                        !.sound = "Wav",
                                        !.soundType = "TYPE_WAV"])
         IN  IF s = -1 THEN Fault(snds, 0, <<>>)
             ELSE IF s # 0 THEN Result(snds, "fileAlreadyLoaded", 0, newHash, <<>>)
             ELSE IF res # "noError"
                  THEN Result(Append(pushed, NullSound), res, 0, newHash, <<engCall>>)
             ELSE Result(pushed, res, 0, newHash, <<engCall>>)

loadFile(snds, inited, completeFileName, res) ==
    LoadKeyed(snds, inited, completeFileName, res, "Wav::load")

(* Player::loadFromMemory(buffer, hash, length): the same, keyed by the     *)
(* fixed string "memory-mapped-sample"; res is the result of loadRawWav.    *)

loadFromMemory(snds, inited, res) ==
    LoadKeyed(snds, inited, MemoryPath, res, "Wav::loadRawWav")

(* Player::loadWaveform: hash is drawn by the caller of this operator from  *)
(* the whole hash range (std::uniform_int_distribution); no lookup is made. *)

loadWaveform(snds, inited, waveform, superWave, scale, detune, hash) ==
    IF ~inited THEN Result(snds, "backendNotInited", 0, -1, <<>>)
    ELSE Result(Append(snds, [NewActiveSound EXCEPT
                                 !.soundHash = hash,
                                 !.sound = "Basicwave",
                                 !.params = [waveform |-> waveform, superWave |-> superWave,
                                             scale |-> scale, detune |-> detune, freq |-> 0],
                                 !.soundType = "TYPE_SYNTH"]),
                "noError", 0, hash, <<>>)

-----------------------------------------------------------------------------
(* The waveform setters.  Each looks the hash up and returns when it is     *)
(* absent or the sound is not TYPE_SYNTH; otherwise it sets one parameter   *)
(* of the Basicwave generator.                                              *)

SetParam(snds, soundHash, field, value) ==
    LET s == FindIf(snds, soundHash)
    IN  IF s = -1 THEN Fault(snds, -1, <<>>)
        ELSE IF s = 0 \/ snds[s].soundType # "TYPE_SYNTH"
             THEN Result(snds, "", 0, -1, <<>>)
        ELSE Result([snds EXCEPT ![s].params[field] = value], "", 0, -1, <<>>)

setWaveformScale(snds, soundHash, newScale) == SetParam(snds, soundHash, "scale", newScale)

setWaveformDetune(snds, soundHash, newDetune) == SetParam(snds, soundHash, "detune", newDetune)

setWaveform(snds, soundHash, newWaveform) == SetParam(snds, soundHash, "waveform", newWaveform)

setWaveformFreq(snds, soundHash, newFreq) == SetParam(snds, soundHash, "freq", newFreq)

setWaveformSuperwave(snds, soundHash, superwave) == SetParam(snds, soundHash, "superWave", superwave)

(* Player::play / Player::play3d.  newHandle is the handle the engine       *)
(* issues.  An entry whose `sound` pointer is empty (one pushed by          *)
(* textToSpeech) is dereferenced to form the engine's argument.             *)

PlayWith(snds, soundHash, newHandle, engCall) ==
    LET s == FindIf(snds, soundHash)
    IN  IF s = -1 THEN Fault(snds, -1, <<>>)
        ELSE IF s = 0 THEN Result(snds, "", 0, -1, <<>>)
        ELSE IF snds[s].sound = "null" THEN Fault(snds, -1, <<>>)
        ELSE Result([snds EXCEPT ![s].handle = Append(@, newHandle)],
                    "", newHandle, -1, <<engCall>>)

play(snds, soundHash, newHandle) == PlayWith(snds, soundHash, newHandle, "play")

play3d(snds, soundHash, newHandle) == PlayWith(snds, soundHash, newHandle, "play3d")

(* Player::stop(handle) *)

stop(snds, handle) ==
    LET f == findByHandle(snds, handle)
    IN  IF f.sound = -1 THEN Fault(snds, -1, <<>>)
        ELSE IF f.sound = 0 THEN Result(snds, "", 0, -1, <<>>)
        ELSE LET hs == snds[f.sound].handle
                 r == RemoveIfHandles(hs, handle, IndexOf(hs, handle, 1),
                                      IndexOf(hs, handle, 1) + 1)
             IN  Result([snds EXCEPT ![f.sound].handle = Erase(r.vec, r.pos)],
                        "", 0, -1, <<"stop">>)

(* Player::disposeSound(soundHash) *)

disposeSound(snds, soundHash) ==
    LET s == FindIf(snds, soundHash)
    IN  IF s = -1 THEN Fault(snds, -1, <<>>)
        ELSE IF s = 0 THEN Result(snds, "", 0, -1, <<>>)
        ELSE IF snds[s].sound = "null" THEN Fault(snds, -1, <<>>)
        ELSE LET r == RemoveIfSounds(snds, soundHash, s, s + 1)
             IN  IF r.fault THEN Fault(snds, -1, <<"AudioSource::stop">>)
                 ELSE Result(Erase(r.vec, r.pos), "", 0, -1, <<"AudioSource::stop">>)

(* Player::disposeAllSound *)

\* variant: the engine is stopped but the registry is not cleared
disposeAllSound_keepsRegistry(snds) == Result(snds, "", 0, -1, <<"stopAll">>)

disposeAllSound(snds) == Result(<<>>, "", 0, -1, <<"stopAll">>)

(* Player::textToSpeech(text, handle).  res is the result of                *)
(* speech.setText, newHandle the handle of soloud.play(speech); the handle  *)
(* out parameter is reported in ret (0: not written).                       *)

textToSpeech(snds, inited, res, newHandle) ==
    IF ~inited THEN Result(snds, "backendNotInited", 0, -1, <<>>)
    ELSE LET pushed == Append(snds, NewActiveSound)
         IN  IF res = "noError"
             THEN Result([pushed EXCEPT ![Len(pushed)].handle = Append(@, newHandle)],
                         res, newHandle, -1, <<"Speech::setText", "play">>)
             ELSE Result(Append(pushed, NullSound), res, 0, -1, <<"Speech::setText">>)

(* Player::getLength(soundHash): 0.0 when the hash is absent or the sound   *)
(* is not TYPE_WAV, otherwise the length the Wav reports, read through the  *)
(* entry's `sound` pointer.  length is that value.                          *)

getLength(snds, soundHash, length) ==
    LET s == FindIf(snds, soundHash)
    IN  IF s = -1 THEN Fault(snds, -1, <<>>)
        ELSE IF s = 0 \/ snds[s].soundType # "TYPE_WAV"
             THEN Result(snds, "", 0, -1, <<>>)
        ELSE IF snds[s].sound = "null" THEN Fault(snds, -1, <<>>)
        ELSE Result(snds, "", length, -1, <<"Wav::getLength">>)

(* Player::debug: prints the handles and the file name of every element,    *)
(* in registry order, reading them through the element.                     *)

debug(snds) ==
    IF HasNull(snds) THEN Fault(snds, -1, <<>>)
    ELSE Result(snds, "", 0, -1, <<>>)

-----------------------------------------------------------------------------
(* The 3D listener.  The engine keeps four vectors for the listener; the    *)
(* Player setters forward their arguments to the engine call named in their *)
(* body.  A vector is a triple of coordinates; the model uses the vectors   *)
(* with at most one non-zero coordinate.                                    *)

\* the coordinates passed to the setters are 0..MaxCoord
MaxCoord == 1

Coords == 0..MaxCoord

Vecs == {<<x, 0, 0>> : x \in Coords} \cup {<<0, y, 0>> : y \in Coords}
            \cup {<<0, 0, z>> : z \in Coords}

\* the listener of a freshly constructed engine: at the origin, looking down
\* the negative z axis, y up, at rest
DefaultListener ==
    [pos |-> <<0, 0, 0>>, at |-> <<0, 0, -1>>, up |-> <<0, 1, 0>>, vel |-> <<0, 0, 0>>]

-----------------------------------------------------------------------------
(* The player as a state machine.  Every public call is one action; a call  *)
(* is taken only while the process is alive and only when its result stays  *)
(* within the bounds of the model.                                          *)

\* results of SoLoud::Wav::load / loadRawWav / Speech::setText
EngineResults == {"noError", "fileNotFound", "fileLoadFailed"}

\* argument values of loadWaveform and of the setters
WaveArgs == {0}
SetArgs == {1}
\* lengths, in seconds, a loaded Wav reports
Lengths == {1}

\* number of handles tracked by the elements i.. of the registry
RECURSIVE LiveFrom(_, _)
LiveFrom(snds, i) ==
    IF i > Len(snds) THEN 0 ELSE Len(snds[i].handle) + LiveFrom(snds, i + 1)

\* number of generator parameters of the elements i.. that differ from WaveArgs
RECURSIVE SetFrom(_, _)
SetFrom(snds, i) ==
    IF i > Len(snds) THEN 0
    ELSE Cardinality({f \in DOMAIN snds[i].params : snds[i].params[f] \notin WaveArgs})
         + SetFrom(snds, i + 1)

InBounds(snds) ==
    /\ Len(snds) <= MaxSounds
    /\ LiveFrom(snds, 1) <= MaxLive
    /\ SetFrom(snds, 1) <= MaxSet

Observe(op, arg, r) ==
    /\ ~crashed
    /\ InBounds(r.sounds)
    /\ sounds' = r.sounds
    /\ crashed' = r.fault
    /\ call' = [op |-> op, arg |-> arg, err |-> r.err, ret |-> r.ret,
                hashOut |-> r.hashOut, eng |-> r.eng,
                count0 |-> Len(sounds), live0 |-> LiveFrom(sounds, 1)]
    /\ UNCHANGED listener
    /\ UNCHANGED captureVars

InitPlayer ==
    /\ mInited = FALSE
    /\ sounds = <<>>
    /\ call = [op |-> "Player", arg |-> 0, err |-> "", ret |-> 0,
               hashOut |-> -1, eng |-> <<>>, count0 |-> 0, live0 |-> 0]
    /\ listener = DefaultListener

(* Player::dispose: soloud.deinit(); mInited = false; sounds.clear() *)
dispose(snds) == Result(<<>>, "", 0, -1, <<"deinit">>)

(* Player::init: dispose() if already initialised, then soloud.init         *)
init(snds, inited, engineOk) ==
    Result(IF inited THEN dispose(snds).sounds ELSE snds,
           IF engineOk THEN "noError" ELSE "backendNotInited", 0, -1,
           IF inited THEN <<"deinit", "init">> ELSE <<"init">>)

PlayerInit ==
    \E engineOk \in BOOLEAN :
        /\ Observe("init", 0, init(sounds, mInited, engineOk))
        /\ mInited' = engineOk

PlayerDispose ==
    /\ Observe("dispose", 0, dispose(sounds))
    /\ mInited' = FALSE

LoadFile ==
    \E completeFileName \in Paths, res \in EngineResults :
        /\ Observe("loadFile", StrHash(completeFileName),
                   loadFile(sounds, mInited, completeFileName, res))
        /\ UNCHANGED mInited

LoadFromMemory ==
    \E res \in EngineResults :
        /\ Observe("loadFromMemory", StrHash(MemoryPath),
                   loadFromMemory(sounds, mInited, res))
        /\ UNCHANGED mInited

LoadWaveform ==
    \E w \in WaveArgs, hash \in HashVals :
        /\ Observe("loadWaveform", hash,
                   loadWaveform(sounds, mInited, w, w, w, w, hash))
        /\ UNCHANGED mInited

SetWaveformScale ==
    \E h \in HashVals, v \in SetArgs :
        /\ Observe("setWaveformScale", h, setWaveformScale(sounds, h, v))
        /\ UNCHANGED mInited

SetWaveformDetune ==
    \E h \in HashVals, v \in SetArgs :
        /\ Observe("setWaveformDetune", h, setWaveformDetune(sounds, h, v))
        /\ UNCHANGED mInited

SetWaveform ==
    \E h \in HashVals, v \in SetArgs :
        /\ Observe("setWaveform", h, setWaveform(sounds, h, v))
        /\ UNCHANGED mInited

SetWaveformFreq ==
    \E h \in HashVals, v \in SetArgs :
        /\ Observe("setWaveformFreq", h, setWaveformFreq(sounds, h, v))
        /\ UNCHANGED mInited

SetWaveformSuperwave ==
    \E h \in HashVals, v \in SetArgs :
        /\ Observe("setWaveformSuperwave", h, setWaveformSuperwave(sounds, h, v))
        /\ UNCHANGED mInited

Play ==
    \E h \in HashVals, newHandle \in Handles :
        /\ Observe("play", h, play(sounds, h, newHandle))
        /\ UNCHANGED mInited

Play3d ==
    \E h \in HashVals, newHandle \in Handles :
        /\ Observe("play3d", h, play3d(sounds, h, newHandle))
        /\ UNCHANGED mInited

Stop ==
    \E handle \in Handles :
        /\ Observe("stop", handle, stop(sounds, handle))
        /\ UNCHANGED mInited

DisposeSound ==
    \E h \in HashVals :
        /\ Observe("disposeSound", h, disposeSound(sounds, h))
        /\ UNCHANGED mInited

DisposeAllSound ==
    /\ Observe("disposeAllSound", 0, disposeAllSound(sounds))
    /\ UNCHANGED mInited

TextToSpeech ==
    \E res \in EngineResults, newHandle \in Handles :
        /\ Observe("textToSpeech", 0, textToSpeech(sounds, mInited, res, newHandle))
        /\ UNCHANGED mInited

GetSoundsCount ==
    /\ Observe("getSoundsCount", 0,
               Result(sounds, "", getSoundsCount(sounds), -1, <<>>))
    /\ UNCHANGED mInited

GetLength ==
    \E h \in HashVals, length \in Lengths :
        /\ Observe("getLength", h, getLength(sounds, h, length))
        /\ UNCHANGED mInited

Debug ==
    /\ Observe("debug", 0, debug(sounds))
    /\ UNCHANGED mInited

-----------------------------------------------------------------------------
(* The capture relay (capture.cpp).                                         *)
(*                                                                          *)
(* A sample is an integer.  Frame k (k >= 1) of the device layer holds the  *)
(* samples (k-1)*CAPTURE_BUFFER_SIZE + 1 .. k*CAPTURE_BUFFER_SIZE, so that  *)
(* neither two frames nor two positions of a frame are confused; 0 is a     *)
(* sample of zero-filled memory.  Memory is kept sample by sample:          *)
(* capturedBuffer is an array of CAPTURE_BUFFER_SIZE samples, and the       *)
(* caller allocates NBufs zero-filled arrays of BufSamples samples, named   *)
(* 1..NBufs, each at its own address, before it passes any of them.  The    *)
(* addresses are fixed from then on; a write past the end of one array that *)
(* reaches the address range of another changes that array, whether or not  *)
(* the caller has passed it to Capture yet.                                 *)
(*                                                                          *)
(* An array of samples is written down as the sequence of its maximal runs: *)
(* a run [n, v] stands for n consecutive samples, v, v+1, .. , v+n-1 when v *)
(* is a sample of a frame (v >= 1) and n times v otherwise.  Two arrays     *)
(* hold the same samples exactly when their runs are equal.                 *)

CAPTURE_BUFFER_SIZE == 256

\* number of buffers the caller owns
NBufs == 2
\* capacity of each caller buffer, in samples
BufSamples == 600
\* callbacks are delivered while currentFrame < MaxFrames
MaxFrames == 3
\* number of distinct frames the device delivers
FrameKinds == 2
\* the device layer delivers CAPTURE_BUFFER_SIZE samples per callback, or only
\* ShortFrame samples
ShortFrame == 128
\* the caller's buffers lie a multiple of GapStep samples apart
GapStep == 56
\* a flag read from memory behind the capture infos is 0..MaxFlag
MaxFlag == 7
\* the device layer reports at most MaxDev playback and MaxDev capture devices
MaxDev == 2

BufIds == 1..NBufs

\* the frame counts the device layer passes to the callback
FrameCounts == {ShortFrame, CAPTURE_BUFFER_SIZE}

\* a sample that belongs to no frame: what a read behind the end of the
\* device's input yields
Mixed == -1

\* sample i (1..CAPTURE_BUFFER_SIZE) of frame k; frame 0 is silence
FrameSample(k, i) ==
    IF k = 0 THEN 0
    ELSE (k - 1) * CAPTURE_BUFFER_SIZE + i

\* sample t (0-based) of a run
RunSample(run, t) == IF run.v >= 1 THEN run.v + t ELSE run.v

\* sample j (1-based) of an array
RECURSIVE ArrSample(_, _)
ArrSample(a, j) ==
    IF j <= Head(a).n THEN RunSample(Head(a), j - 1)
    ELSE ArrSample(Tail(a), j - Head(a).n)

\* the first n samples of an array
RECURSIVE ArrTake(_, _)
ArrTake(a, n) ==
    IF n <= 0 \/ a = <<>> THEN <<>>
    ELSE IF Head(a).n <= n THEN <<Head(a)>> \o ArrTake(Tail(a), n - Head(a).n)
    ELSE <<[Head(a) EXCEPT !.n = n]>>

\* an array without its first n samples
RECURSIVE ArrDrop(_, _)
ArrDrop(a, n) ==
    IF n <= 0 \/ a = <<>> THEN a
    ELSE IF Head(a).n <= n THEN ArrDrop(Tail(a), n - Head(a).n)
    ELSE <<[n |-> Head(a).n - n, v |-> RunSample(Head(a), n)]>> \o Tail(a)

\* the maximal runs of the samples written as the runs a
RECURSIVE ArrNorm(_)
ArrNorm(a) ==
    IF a = <<>> THEN <<>>
    ELSE IF Head(a).n = 0 THEN ArrNorm(Tail(a))
    ELSE IF Len(a) = 1 THEN a
    ELSE IF a[2].n = 0 THEN ArrNorm(<<a[1]>> \o Tail(Tail(a)))
    ELSE IF a[2].v = RunSample(a[1], a[1].n)
         THEN ArrNorm(<<[n |-> a[1].n + a[2].n, v |-> a[1].v]>> \o Tail(Tail(a)))
    ELSE <<a[1]>> \o ArrNorm(Tail(a))

\* the CAPTURE_BUFFER_SIZE samples a memcpy reads at pInput when the device
\* layer put the first frameCount samples of frame k there
Captured(k, frameCount) ==
    ArrNorm(<<[n |-> frameCount, v |-> FrameSample(k, 1)],
              [n |-> CAPTURE_BUFFER_SIZE - frameCount, v |-> Mixed]>>)

\* sample j (1..buf.cap) of a caller's buffer
BufSample(buf, j) == ArrSample(buf.data, j)

\* the distance, in samples, from the end of one caller buffer to the start
\* of the next is a multiple of GapStep up to MaxGap, the distance from which
\* on no write of the model reaches the next buffer
MaxGap == MaxFrames * CAPTURE_BUFFER_SIZE - BufSamples

Gaps == {g \in 0..MaxGap : g % GapStep = 0}

\* the placements of the caller's buffers: they lie one behind the other in
\* some order, each gap samples behind the end of the one before it
Layouts ==
    {[b \in BufIds |-> (p[b] - 1) * (BufSamples + gap)] :
        p \in {q \in [BufIds -> BufIds] : \A x, y \in BufIds : q[x] = q[y] => x = y},
        gap \in Gaps}

\* the caller's memory under a placement: every buffer zero-filled
Heap(base) ==
    [b \in BufIds |-> [base |-> base[b], cap |-> BufSamples,
                       data |-> <<[n |-> BufSamples, v |-> 0]>>]]

\* what the device layer reports for one capture device
DevInfo == {[name |-> "mic", isDefault |-> 1], [name |-> "line", isDefault |-> 0]}

\* what one read behind the capture infos yields: a fault, or whatever the
\* memory there holds (isDefault is an unsigned int and is copied as it is)
Beyond ==
    {[fault |-> TRUE, info |-> [name |-> "?", isDefault |-> 0]]}
    \cup {[fault |-> FALSE, info |-> [name |-> "?", isDefault |-> d]] : d \in 0..MaxFlag}

\* one such outcome for each index read behind the n capture infos
BeyondReads(n, playbackCount) == [(n + 1)..playbackCount -> Beyond]

\* sequences of device infos of length at most n
InfoSeqs(n) == UNION {[1..m -> DevInfo] : m \in 0..n}

NoCapCall == [op |-> "Capture", err |-> "", ret |-> <<>>, offset |-> 0, outside |-> 0]

CapObserve(op, err, ret, offset, outside) ==
    [op |-> op, err |-> err, ret |-> ret, offset |-> offset, outside |-> outside]

InitCapture ==
    /\ capInited = FALSE
    /\ device = "uninit"
    /\ currentFrame = 0
    /\ capturedBuffer = <<[n |-> CAPTURE_BUFFER_SIZE, v |-> 0]>>
    /\ bigBuffer = 0
    /\ heap = <<>>
    /\ devInfos = [playbackCount |-> 0, capture |-> <<>>]
    /\ delivered = <<>>
    /\ nCallbacks = 0
    /\ session = [full |-> TRUE, rebound |-> FALSE]
    /\ capCall = NoCapCall
    /\ capPc = "idle"

Init == InitPlayer /\ InitCapture /\ crashed = FALSE

(* The caller allocates the buffers it is going to pass to Capture. *)

Allocate ==
    /\ ~crashed
    /\ capPc = "idle"
    /\ heap = <<>>
    /\ \E base \in Layouts : heap' = Heap(base)
    /\ UNCHANGED <<crashed, capInited, device, currentFrame, capturedBuffer,
                   bigBuffer, devInfos, delivered, nCallbacks, session, capCall,
                   capPc>>
    /\ UNCHANGED playerVars

(* memcpy(dest, src, sizeof(float) * CAPTURE_BUFFER_SIZE) into the caller's *)
(* memory: the sample at every address dest .. dest+CAPTURE_BUFFER_SIZE-1   *)
(* that belongs to a caller buffer is replaced, in whichever buffer it is.  *)

memcpy(h, dest, src) ==
    [b \in DOMAIN h |->
        LET lo == (IF dest > h[b].base THEN dest ELSE h[b].base) - h[b].base
            end == IF dest + CAPTURE_BUFFER_SIZE < h[b].base + h[b].cap
                   THEN dest + CAPTURE_BUFFER_SIZE ELSE h[b].base + h[b].cap
            hi == end - h[b].base
        IN  IF lo >= hi THEN h[b]
            ELSE [h[b] EXCEPT !.data =
                     ArrNorm(ArrTake(@, lo)
                             \o ArrTake(ArrDrop(src, h[b].base + lo - dest), hi - lo)
                             \o ArrDrop(@, hi))]]

(* data_callback: memcpy of CAPTURE_BUFFER_SIZE samples to capturedBuffer   *)
(* and to &bigBuffer[CAPTURE_BUFFER_SIZE * currentFrame], then              *)
(* currentFrame++.  h is the caller's memory, big the buffer bigBuffer      *)
(* points to, captured the samples read at pInput.  `outside` is the number *)
(* of samples the second memcpy writes past the end of that buffer.         *)

\* variant: a callback that checks the capacity and drops the frame when the
\* buffer is exhausted
data_callback_checked(h, big, cur, captured) ==
    LET offset == CAPTURE_BUFFER_SIZE * cur
        fits == offset + CAPTURE_BUFFER_SIZE <= h[big].cap
    IN  [capturedBuffer |-> captured,
         heap |-> IF fits THEN memcpy(h, h[big].base + offset, captured) ELSE h,
         currentFrame |-> IF fits THEN cur + 1 ELSE cur,
         offset |-> offset,
         outside |-> 0]

data_callback(h, big, cur, captured) ==
    LET offset == CAPTURE_BUFFER_SIZE * cur
    IN  [capturedBuffer |-> captured,
         heap |-> memcpy(h, h[big].base + offset, captured),
         currentFrame |-> cur + 1,
         offset |-> offset,
         outside |-> IF offset + CAPTURE_BUFFER_SIZE <= h[big].cap THEN 0
                     ELSE IF offset >= h[big].cap THEN CAPTURE_BUFFER_SIZE
                     ELSE offset + CAPTURE_BUFFER_SIZE - h[big].cap]

(* The device thread invokes the callback while the device is started,      *)
(* wherever the caller's thread is (the callback reads no field of          *)
(* Capture), with the frameCount samples the device layer has for it.  Both memcpy    *)
(* calls read CAPTURE_BUFFER_SIZE samples whatever frameCount is: behind a  *)
(* short frame they read what lies there, or fault.  A write past the end   *)
(* of the caller's buffer is undefined: it faults (the process is           *)
(* terminated), or it completes and the samples land in what lies at those  *)
(* addresses, which may be another buffer of the caller.                    *)

DataCallback ==
    \E k \in 1..FrameKinds, frameCount \in FrameCounts, faults \in BOOLEAN :
        /\ ~crashed
        /\ device = "started"
        /\ bigBuffer \in DOMAIN heap
        /\ currentFrame < MaxFrames
        /\ LET r == data_callback(heap, bigBuffer, currentFrame,
                                  Captured(k, frameCount))
           IN  /\ faults => (r.outside > 0 \/ frameCount < CAPTURE_BUFFER_SIZE)
               /\ IF faults
                  THEN /\ crashed' = TRUE
                       /\ capCall' = CapObserve("data_callback", "fault", <<>>,
                                                r.offset, r.outside)
                       /\ UNCHANGED <<capturedBuffer, heap, currentFrame,
                                      delivered, nCallbacks, session>>
                  ELSE /\ crashed' = FALSE
                       /\ capturedBuffer' = r.capturedBuffer
                       /\ heap' = r.heap
                       /\ currentFrame' = r.currentFrame
                       /\ delivered' = Append(delivered, k)
                       /\ nCallbacks' = nCallbacks + 1
                       /\ session' = [session EXCEPT
                                         !.full = @ /\ frameCount = CAPTURE_BUFFER_SIZE]
                       /\ capCall' = CapObserve("data_callback", "", <<>>,
                                                r.offset, r.outside)
        /\ UNCHANGED <<capInited, device, bigBuffer, devInfos, capPc>>
        /\ UNCHANGED playerVars

(* Capture::listCaptureDevices.  ctxOk, getOk: the results of               *)
(* ma_context_init and ma_context_get_devices; playbackCount and capture:   *)
(* what the device layer reports; beyond[i]: what the read of               *)
(* pCaptureInfos[i-1] yields for each i behind the capture infos (fault:    *)
(* the read faults).                                                        *)

listCaptureDevices(ctxOk, getOk, playbackCount, capture, beyond) ==
    IF ~ctxOk THEN [ret |-> <<>>, stored |-> FALSE, fault |-> FALSE,
                    log |-> "Failed to initialize context"]
    ELSE IF ~getOk THEN [ret |-> <<>>, stored |-> FALSE, fault |-> FALSE,
                         log |-> "Failed to get devices"]
    ELSE IF \E i \in (Len(capture) + 1)..playbackCount : beyond[i].fault
         THEN [ret |-> <<>>, stored |-> TRUE, fault |-> TRUE, log |-> ""]
    ELSE [ret |-> [i \in 1..playbackCount |->
                      IF i <= Len(capture)
                      THEN [name |-> capture[i].name, isDefault |-> capture[i].isDefault]
                      ELSE [name |-> beyond[i].info.name,
                            isDefault |-> beyond[i].info.isDefault]],
          stored |-> TRUE, fault |-> FALSE, log |-> ""]

ListCaptureDevices ==
    \E ctxOk \in BOOLEAN, getOk \in BOOLEAN, playbackCount \in 0..MaxDev,
       capture \in InfoSeqs(MaxDev) :
      \E beyond \in BeyondReads(Len(capture), playbackCount) :
        /\ ~crashed
        /\ capPc = "idle"
        /\ ~ctxOk => getOk
        /\ LET r == listCaptureDevices(ctxOk, getOk, playbackCount, capture, beyond)
           IN  /\ crashed' = r.fault
               /\ devInfos' = IF r.stored
                              THEN [playbackCount |-> playbackCount, capture |-> capture]
                              ELSE devInfos
               /\ capCall' = CapObserve("listCaptureDevices",
                                        IF r.fault THEN "fault" ELSE r.log, r.ret, 0, 0)
        /\ UNCHANGED <<capInited, device, currentFrame, capturedBuffer, bigBuffer,
                       heap, delivered, nCallbacks, session, capPc>>
        /\ UNCHANGED playerVars

(* Capture::initializeBuffer(bufferFromDart): bigBuffer = bufferFromDart.   *)
(* It is public; Capture::init calls it after a successful ma_device_init.  *)

initializeBuffer(bufferFromDart) == bufferFromDart

(* Capture::init(deviceID, bufferFromDart).  devOk is the result of         *)
(* ma_device_init.                                                          *)

captureInit(inited, deviceID, bufferFromDart, devOk, oldBuffer) ==
    IF inited THEN [err |-> "capture_init_failed", inited |-> TRUE, opened |-> FALSE,
                    bigBuffer |-> oldBuffer]
    ELSE IF ~devOk THEN [err |-> "capture_init_failed", inited |-> FALSE, opened |-> FALSE,
                         bigBuffer |-> oldBuffer]
    ELSE [err |-> "capture_noError", inited |-> TRUE, opened |-> TRUE,
          bigBuffer |-> initializeBuffer(bufferFromDart)]

(* With a deviceID other than -1 the device id is read through              *)
(* &pPlaybackInfos[deviceID]; with deviceID at or behind playbackCount that *)
(* read is outside the infos of the device layer: it faults, or yields      *)
(* whatever lies there and ma_device_init succeeds or fails on it.          *)

CaptureInit ==
    \E deviceID \in (-1)..(MaxDev - 1), bufferFromDart \in DOMAIN heap,
       devOk \in BOOLEAN, faults \in BOOLEAN :
        /\ ~crashed
        /\ capPc = "idle"
        /\ faults => (~capInited /\ deviceID >= devInfos.playbackCount)
        /\ IF faults
           THEN /\ crashed' = TRUE
                /\ capCall' = CapObserve("init", "fault", <<>>, 0, 0)
                /\ UNCHANGED <<capInited, device, bigBuffer, delivered, session>>
           ELSE LET r == captureInit(capInited, deviceID, bufferFromDart, devOk, bigBuffer)
                IN  /\ crashed' = FALSE
                    /\ capInited' = r.inited
                    /\ device' = IF r.opened THEN "stopped" ELSE device
                    /\ bigBuffer' = r.bigBuffer
                    /\ delivered' = IF r.opened THEN <<>> ELSE delivered
                    /\ session' = IF r.opened THEN [full |-> TRUE, rebound |-> FALSE]
                                  ELSE session
                    /\ capCall' = CapObserve("init", r.err, <<>>, 0, 0)
        /\ UNCHANGED <<currentFrame, capturedBuffer, heap, devInfos, nCallbacks,
                       capPc>>
        /\ UNCHANGED playerVars

InitializeBuffer ==
    \E bufferFromDart \in DOMAIN heap :
        /\ ~crashed
        /\ capPc = "idle"
        /\ bigBuffer' = initializeBuffer(bufferFromDart)
        /\ session' = [session EXCEPT !.rebound = @ \/ bufferFromDart # bigBuffer]
        /\ capCall' = CapObserve("initializeBuffer", "", <<>>, 0, 0)
        /\ UNCHANGED <<crashed, capInited, device, currentFrame, capturedBuffer,
                       heap, devInfos, delivered, nCallbacks, capPc>>
        /\ UNCHANGED playerVars

(* Capture::startCapture.  startOk is the result of ma_device_start, which  *)
(* fails on a device that is not initialised.                               *)

startCapture(inited, dev, startOk) ==
    IF ~inited THEN [err |-> "capture_not_inited", device |-> dev]
    ELSE IF ~startOk \/ dev = "uninit"
         THEN [err |-> "failed_to_start_device", device |-> "uninit"]
    ELSE [err |-> "capture_noError", device |-> "started"]

StartCapture ==
    \E startOk \in BOOLEAN :
        /\ ~crashed
        /\ capPc = "idle"
        /\ LET r == startCapture(capInited, device, startOk)
           IN  /\ device' = r.device
               /\ capCall' = CapObserve("startCapture", r.err, <<>>, 0, 0)
        /\ UNCHANGED <<crashed, capInited, currentFrame, capturedBuffer, bigBuffer,
                       heap, devInfos, delivered, nCallbacks, session, capPc>>
        /\ UNCHANGED playerVars

(* Capture::stopCapture: ma_device_uninit(&device); mInited = false.  Once  *)
(* ma_device_uninit has returned no callback is delivered, so the two       *)
(* statements are one step.                                                 *)

stopCapture(inited, dev) ==
    IF ~inited THEN [err |-> "capture_not_inited", inited |-> FALSE, device |-> dev]
    ELSE [err |-> "capture_noError", inited |-> FALSE, device |-> "uninit"]

StopCapture ==
    /\ ~crashed
    /\ capPc = "idle"
    /\ LET r == stopCapture(capInited, device)
       IN  /\ capInited' = r.inited
           /\ device' = r.device
           /\ capCall' = CapObserve("stopCapture", r.err, <<>>, 0, 0)
    /\ UNCHANGED <<crashed, currentFrame, capturedBuffer, bigBuffer, heap, devInfos,
                   delivered, nCallbacks, session, capPc>>
    /\ UNCHANGED playerVars

(* Capture::dispose (the destructor calls it too), in two steps: first      *)
(* mInited = false, then ma_device_uninit(&device).  Between the two the    *)
(* device is still in the state it was in, and the device thread goes on    *)
(* delivering callbacks if it was started.  The call is observed when it    *)
(* returns.                                                                 *)

CaptureDispose ==
    /\ ~crashed
    /\ capPc = "idle"
    /\ capInited' = FALSE
    /\ capPc' = "dispose"
    /\ UNCHANGED <<crashed, device, currentFrame, capturedBuffer, bigBuffer, heap,
                   devInfos, delivered, nCallbacks, session, capCall>>
    /\ UNCHANGED playerVars

CaptureDisposeUninit ==
    /\ ~crashed
    /\ capPc = "dispose"
    /\ device' = "uninit"
    /\ capCall' = CapObserve("dispose", "", <<>>, 0, 0)
    /\ capPc' = "idle"
    /\ UNCHANGED <<crashed, capInited, currentFrame, capturedBuffer, bigBuffer, heap,
                   devInfos, delivered, nCallbacks, session>>
    /\ UNCHANGED playerVars

\* a capture session: init, a change of buffer, start, callbacks, stop
NextCapture ==
    \/ Allocate
    \/ CaptureInit
    \/ InitializeBuffer
    \/ StartCapture
    \/ StopCapture
    \/ CaptureDispose
    \/ CaptureDisposeUninit
    \/ DataCallback

SpecCapture == Init /\ [][NextCapture]_vars

\* device enumeration and the choice of a device
NextDevices ==
    \/ Allocate
    \/ ListCaptureDevices
    \/ CaptureInit
    \/ CaptureDispose
    \/ CaptureDisposeUninit

SpecDevices == Init /\ [][NextDevices]_vars

\* registry and playback calls
NextPlayer ==
    \/ PlayerInit
    \/ PlayerDispose
    \/ LoadFile
    \/ LoadFromMemory
    \/ LoadWaveform
    \/ Play
    \/ Play3d
    \/ Stop
    \/ DisposeSound
    \/ DisposeAllSound
    \/ TextToSpeech
    \/ GetSoundsCount
    \/ GetLength
    \/ Debug

SpecPlayer == Init /\ [][NextPlayer]_vars

\* registry calls and the waveform setters
NextWaveform ==
    \/ PlayerInit
    \/ LoadFile
    \/ LoadFromMemory
    \/ LoadWaveform
    \/ TextToSpeech
    \/ DisposeSound
    \/ DisposeAllSound
    \/ SetWaveformScale
    \/ SetWaveformDetune
    \/ SetWaveform
    \/ SetWaveformFreq
    \/ SetWaveformSuperwave

SpecWaveform == Init /\ [][NextWaveform]_vars

-----------------------------------------------------------------------------
(* The Player setters of the 3D listener *)

\* the engine calls: the listener after the call, and the call made
Soloud_set3dListenerParameters(l, pos, at, up, vel) ==
    [listener |-> [pos |-> pos, at |-> at, up |-> up, vel |-> vel],
     eng |-> <<"set3dListenerParameters">>]

Soloud_set3dListenerPosition(l, pos) ==
    [listener |-> [l EXCEPT !.pos = pos], eng |-> <<"set3dListenerPosition">>]

Soloud_set3dListenerAt(l, at) ==
    [listener |-> [l EXCEPT !.at = at], eng |-> <<"set3dListenerAt">>]

\* (no Player setter calls this one)
Soloud_set3dListenerUp(l, up) ==
    [listener |-> [l EXCEPT !.up = up], eng |-> <<"set3dListenerUp">>]

Soloud_set3dListenerVelocity(l, vel) ==
    [listener |-> [l EXCEPT !.vel = vel], eng |-> <<"set3dListenerVelocity">>]

\* the Player setters
set3dListenerParameters(l, pos, at, up, vel) ==
    Soloud_set3dListenerParameters(l, pos, at, up, vel)

set3dListenerPosition(l, pos) == Soloud_set3dListenerPosition(l, pos)

set3dListenerAt(l, at) == Soloud_set3dListenerAt(l, at)

\* Player::set3dListenerUp calls soloud.set3dListenerAt with its arguments
set3dListenerUp(l, up) == Soloud_set3dListenerAt(l, up)

set3dListenerVelocity(l, vel) == Soloud_set3dListenerVelocity(l, vel)

\* one listener call of Player: r is the result of the engine call its body
\* makes; the observation records the Player function called (op) and the
\* engine call made (eng)
ListenerCall(op, arg, r) ==
    /\ ~crashed
    /\ listener' = r.listener
    /\ call' = [op |-> op, arg |-> arg, err |-> "", ret |-> 0, hashOut |-> -1,
                eng |-> r.eng, count0 |-> Len(sounds), live0 |-> LiveFrom(sounds, 1)]
    /\ UNCHANGED crashed
    /\ UNCHANGED captureVars

Set3dListenerParameters ==
    \E pos \in Vecs, at \in Vecs, up \in Vecs, vel \in Vecs :
        /\ ListenerCall("set3dListenerParameters", <<pos, at, up, vel>>,
                        set3dListenerParameters(listener, pos, at, up, vel))
        /\ UNCHANGED <<mInited, sounds>>

Set3dListenerPosition ==
    \E v \in Vecs :
        /\ ListenerCall("set3dListenerPosition", v, set3dListenerPosition(listener, v))
        /\ UNCHANGED <<mInited, sounds>>

Set3dListenerAt ==
    \E v \in Vecs :
        /\ ListenerCall("set3dListenerAt", v, set3dListenerAt(listener, v))
        /\ UNCHANGED <<mInited, sounds>>

Set3dListenerUp ==
    \E v \in Vecs :
        /\ ListenerCall("set3dListenerUp", v, set3dListenerUp(listener, v))
        /\ UNCHANGED <<mInited, sounds>>

Set3dListenerVelocity ==
    \E v \in Vecs :
        /\ ListenerCall("set3dListenerVelocity", v, set3dListenerVelocity(listener, v))
        /\ UNCHANGED <<mInited, sounds>>

\* the listener calls
NextListener ==
    \/ Set3dListenerParameters
    \/ Set3dListenerPosition
    \/ Set3dListenerAt
    \/ Set3dListenerUp
    \/ Set3dListenerVelocity

SpecListener == Init /\ [][NextListener]_vars

-----------------------------------------------------------------------------
(* Properties of the registry *)

LoadOps == {"loadFile", "loadFromMemory"}
PlayOps == {"play", "play3d"}
SetterOps == {"setWaveformScale", "setWaveformDetune", "setWaveform",
              "setWaveformFreq", "setWaveformSuperwave"}

\* C1: on an initialised player, loadFile/loadFromMemory for a hash that is
\* already in the registry returns fileAlreadyLoaded, reports that hash, and
\* leaves the registry with exactly one entry for it and the same count.
C1_AlreadyLoaded ==
    [][(call'.op \in LoadOps /\ mInited /\ call'.arg \in Hashes(sounds))
        => /\ ~crashed'
           /\ call'.err = "fileAlreadyLoaded"
           /\ call'.hashOut = call'.arg
           /\ CountHash(sounds', call'.arg) = 1
           /\ getSoundsCount(sounds') = getSoundsCount(sounds)]_vars

\* C2: after stop(h), h is no longer in the live-handle list of the sound
\* findByHandle reported as its owner; if no sound tracks h, stop(h) changes
\* no registry state and makes no engine call.
C2_StopRemovesHandle ==
    [][call'.op = "stop"
        => LET h == call'.arg
               f == findByHandle(sounds, h)
           IN  /\ f.sound > 0
                    => ~crashed' /\ IndexOf(sounds'[f.sound].handle, h, 1) = 0
               /\ h \notin Tracked(sounds)
                    => ~crashed' /\ sounds' = sounds /\ call'.eng = <<>>]_vars

\* C4: disposeAllSound stops all engine-side voices and leaves the registry
\* empty: getSoundsCount is 0 and no handle is tracked by any sound.
C4_DisposeAllEmpties ==
    call.op = "disposeAllSound"
        => /\ ~crashed
           /\ sounds = <<>>
           /\ getSoundsCount(sounds) = 0
           /\ Tracked(sounds) = {}
           /\ call.eng = <<"stopAll">>

\* C4 witness: disposeAllSound has run on a registry that held several
\* sounds and tracked a live handle.
C4_Witness ==
    /\ call.op = "disposeAllSound"
    /\ call.count0 >= 2
    /\ call.live0 >= 1
    /\ sounds = <<>>

\* C5: play/play3d with a hash that is in no registry entry returns 0, makes
\* no engine play call and leaves every live-handle list unchanged.
C5_PlayUnknown ==
    [][(call'.op \in PlayOps /\ call'.arg \notin Hashes(sounds))
        => /\ ~crashed'
           /\ call'.ret = 0
           /\ call'.eng = <<>>
           /\ sounds' = sounds]_vars

\* C6: a waveform setter called with a hash that is absent or belongs to a
\* sound that is not synthesized returns without error and changes neither
\* the registry nor any sound's parameters.
C6_SetterNoOp ==
    [][(/\ call'.op \in SetterOps
        /\ \A i \in 1..Len(sounds) :
              (~sounds[i].null /\ sounds[i].soundHash = call'.arg)
                  => sounds[i].soundType # "TYPE_SYNTH")
        => /\ ~crashed'
           /\ sounds' = sounds]_vars

\* C7: no two registry entries carry the same hash.
C7_HashUnique ==
    \A i, j \in 1..Len(sounds) :
        (i # j /\ ~sounds[i].null /\ ~sounds[j].null)
            => sounds[i].soundHash # sounds[j].soundHash

\* the registry without its entries for hash h
RECURSIVE Without(_, _)
Without(snds, h) ==
    IF snds = <<>> THEN <<>>
    ELSE IF ~Head(snds).null /\ Head(snds).soundHash = h THEN Without(Tail(snds), h)
    ELSE <<Head(snds)>> \o Without(Tail(snds), h)

\* C8: disposeSound(hash) with hash present removes exactly the entry for
\* that hash (the hash is gone, the count drops by one) and leaves every
\* other entry and its live handles unchanged; with hash absent it changes
\* nothing.
C8_DisposeRemovesOne ==
    [][call'.op = "disposeSound"
        => /\ ~crashed'
           /\ IF call'.arg \in Hashes(sounds)
              THEN /\ call'.arg \notin Hashes(sounds')
                   /\ getSoundsCount(sounds') = getSoundsCount(sounds) - 1
                   /\ sounds' = Without(sounds, call'.arg)
              ELSE sounds' = sounds]_vars

\* C11: every registry entry is a non-empty sound record in every reachable
\* state, also after a load or textToSpeech whose engine step failed, and no
\* lookup by hash or by handle dereferences an empty entry (no call faults).
C11_NoEmptyEntry ==
    /\ ~HasNull(sounds)
    /\ ~crashed

-----------------------------------------------------------------------------
(* Properties of the capture relay *)

\* C3: in every capture session, after N callbacks delivered since the
\* session's init, each with a frame of CAPTURE_BUFFER_SIZE samples, with
\* N * CAPTURE_BUFFER_SIZE within the capacity of the buffer passed to init,
\* the first N * CAPTURE_BUFFER_SIZE samples of the caller's buffer are the N
\* delivered frames in order and capturedBuffer is the N-th frame.
C3_BufferHoldsFrames ==
    LET N == Len(delivered)
    IN  (/\ N >= 1
         /\ N * CAPTURE_BUFFER_SIZE <= BufSamples
         /\ session.full
         /\ ~session.rebound)
            => /\ \A n \in 1..N, i \in 1..CAPTURE_BUFFER_SIZE :
                      BufSample(heap[bigBuffer], (n - 1) * CAPTURE_BUFFER_SIZE + i)
                          = FrameSample(delivered[n], i)
               /\ \A i \in 1..CAPTURE_BUFFER_SIZE :
                      ArrSample(capturedBuffer, i) = FrameSample(delivered[N], i)

\* C9: listCaptureDevices returns exactly one entry per capture device the
\* device layer reported, with its name and default flag, in order.
C9_ListsCaptureDevices ==
    (capCall.op = "listCaptureDevices"
     /\ capCall.err \notin {"Failed to initialize context", "Failed to get devices"})
        => /\ ~crashed
           /\ capCall.ret = devInfos.capture

\* C10: the callback applies no overflow check: every invocation writes at
\* offset CAPTURE_BUFFER_SIZE * currentFrame and then advances currentFrame
\* by one, whatever the capacity of the buffer, so currentFrame counts every
\* completed callback since the process started.
C10_NoOverflowCheck ==
    /\ currentFrame = nCallbacks
    /\ capCall.op = "data_callback"
           => capCall.offset = CAPTURE_BUFFER_SIZE *
                                   (IF crashed THEN currentFrame ELSE currentFrame - 1)

\* C10 witness: a callback has completed after writing past the end of the
\* caller's buffer, with the counter at or beyond capacity / frame size.
C10_Witness ==
    /\ capCall.op = "data_callback"
    /\ ~crashed
    /\ capCall.outside > 0
    /\ capCall.offset + CAPTURE_BUFFER_SIZE > BufSamples
    /\ currentFrame > BufSamples \div CAPTURE_BUFFER_SIZE

\* the step makes a call of ma_device_uninit(&device): it is the second
\* statement of dispose (which the destructor runs too), a stopCapture that
\* passes its guard, or a startCapture whose ma_device_start failed
UninitCalled ==
    \/ CaptureDisposeUninit
    \/ StopCapture /\ capCall'.err = "capture_noError"
    \/ StartCapture /\ capCall'.err = "failed_to_start_device"

\* C12: the capture device is uninitialised only while it is initialised:
\* every call of ma_device_uninit finds a device that a successful
\* ma_device_init set up and no earlier uninit has released.
C12_UninitOnlyInited ==
    [][UninitCalled => device # "uninit"]_vars

-----------------------------------------------------------------------------
(* Properties of the 3D listener *)

\* C13: set3dListenerUp(x, y, z) sets the listener's up vector to (x, y, z)
\* and leaves its at vector, position and velocity unchanged; set3dListenerAt
\* changes only the at vector.
C13_ListenerUpAndAt ==
    [][/\ call'.op = "set3dListenerUp"
            => listener' = [listener EXCEPT !.up = call'.arg]
       /\ call'.op = "set3dListenerAt"
            => listener' = [listener EXCEPT !.at = call'.arg]]_vars

====
